---- MODULE Spec2Model ----
(***************************************************************************)
(* A model of src/colors.rs: the RGBA and HSLA colour value types, their   *)
(* constructors, the RGB <-> HSL transform, the complement and the byte    *)
(* triple marshalling.                                                     *)
(*                                                                         *)
(* Every field of both colour types is an f64.  The model keeps that: an   *)
(* f64 is a record (kind, sign, 53-bit significand, exponent) and every    *)
(* arithmetic operator of the source (+, -, *, /, %, round, comparisons,   *)
(* max, min) is the IEEE-754 binary64 operation, correctly rounded to      *)
(* nearest, ties to even.  The significands do not fit the integers of the *)
(* model checker, so they are natural numbers written in base 2^15.        *)
(***************************************************************************)
EXTENDS Integers, Sequences, FiniteSets, TLC

(***************************************************************************)
(* Natural numbers of any size: little-endian sequences of base-2^15       *)
(* digits without a leading (most significant) zero digit; zero is << >>.  *)
(***************************************************************************)
Base == 2 ^ 15

RECURSIVE IntBitLen(_)
IntBitLen(n) == IF n = 0 THEN 0 ELSE 1 + IntBitLen(n \div 2)

\* the bits of one digit
LimbBits == IntBitLen(Base) - 1

Limb(a, i) == IF i <= Len(a) THEN a[i] ELSE 0

RECURSIVE BNorm(_)
BNorm(a) ==
    IF a = << >> THEN << >>
    ELSE IF a[Len(a)] = 0 THEN BNorm(SubSeq(a, 1, Len(a) - 1))
    ELSE a

RECURSIVE BFromInt(_)
BFromInt(n) == IF n = 0 THEN << >> ELSE <<n % Base>> \o BFromInt(n \div Base)

RECURSIVE BToInt(_)
BToInt(a) == IF a = << >> THEN 0 ELSE a[1] + Base * BToInt(Tail(a))

RECURSIVE BCmpFrom(_, _, _)
BCmpFrom(a, b, i) ==
    IF i = 0 THEN 0
    ELSE IF a[i] < b[i] THEN -1
    ELSE IF a[i] > b[i] THEN 1
    ELSE BCmpFrom(a, b, i - 1)

BCmp(a, b) ==
    IF Len(a) < Len(b) THEN -1
    ELSE IF Len(a) > Len(b) THEN 1
    ELSE BCmpFrom(a, b, Len(a))

RECURSIVE BAddFrom(_, _, _, _)
BAddFrom(a, b, i, c) ==
    IF i > Len(a) /\ i > Len(b) THEN (IF c = 0 THEN << >> ELSE <<c>>)
    ELSE LET s == Limb(a, i) + Limb(b, i) + c
         IN  <<s % Base>> \o BAddFrom(a, b, i + 1, s \div Base)

BAdd(a, b) == BAddFrom(a, b, 1, 0)

RECURSIVE BSubFrom(_, _, _, _)
BSubFrom(a, b, i, c) ==
    IF i > Len(a) THEN << >>
    ELSE LET s == a[i] - Limb(b, i) - c
         IN  IF s < 0 THEN <<s + Base>> \o BSubFrom(a, b, i + 1, 1)
             ELSE <<s>> \o BSubFrom(a, b, i + 1, 0)

\* a - b for a >= b
BSub(a, b) == BNorm(BSubFrom(a, b, 1, 0))

RECURSIVE BMulSmallFrom(_, _, _, _)
BMulSmallFrom(a, k, i, c) ==
    IF i > Len(a) THEN (IF c = 0 THEN << >> ELSE <<c>>)
    ELSE LET s == a[i] * k + c
         IN  <<s % Base>> \o BMulSmallFrom(a, k, i + 1, s \div Base)

\* a * k for 0 <= k < Base
BMulSmall(a, k) == IF k = 0 THEN << >> ELSE BMulSmallFrom(a, k, 1, 0)

\* a * Base + k, for a digit k
BPush(a, k) == IF a = << >> /\ k = 0 THEN << >> ELSE <<k>> \o a

RECURSIVE BMulFrom(_, _, _)
BMulFrom(a, b, j) ==
    IF j > Len(b) THEN << >>
    ELSE BAdd(BMulSmall(a, b[j]), BPush(BMulFrom(a, b, j + 1), 0))

BMul(a, b) == IF a = << >> THEN << >> ELSE BMulFrom(a, b, 1)

Zeros(n) == [i \in 1..n |-> 0]

\* a * 2^n
BShl(a, n) ==
    IF a = << >> THEN << >>
    ELSE Zeros(n \div LimbBits) \o BMulSmall(a, 2 ^ (n % LimbBits))

\* floor(a / 2^n)
BShr(a, n) ==
    LET q == n \div LimbBits
        r == n % LimbBits
        lo == 2 ^ r
        hi == 2 ^ (LimbBits - r)
    IN  IF q >= Len(a) THEN << >>
        ELSE BNorm([i \in 1..(Len(a) - q) |->
                      (a[i + q] \div lo) + (Limb(a, i + q + 1) % lo) * hi])

BBitLen(a) ==
    IF a = << >> THEN 0 ELSE (Len(a) - 1) * LimbBits + IntBitLen(a[Len(a)])

\* bit i (bit 0 is the least significant) of a
BTestBit(a, i) == (Limb(a, (i \div LimbBits) + 1) \div (2 ^ (i % LimbBits))) % 2 = 1

\* whether some bit below bit n of a is set
BLowBits(a, n) ==
    \/ \E i \in 1..(n \div LimbBits) : Limb(a, i) # 0
    \/ Limb(a, (n \div LimbBits) + 1) % (2 ^ (n % LimbBits)) # 0

BOdd(a) == a # << >> /\ a[1] % 2 = 1

\* the shift that brings the top digit of d to Base / 2 or more
NormShift(d) == Len(d) * LimbBits - BBitLen(d)

\* One digit of a long division: <<floor(r / d), r mod d>> for r < d * Base
\* and d with a top digit of Base / 2 or more.  The quotient q0 of the two
\* top digits of r by the top digit of d is the digit or exceeds it by at
\* most two; p0 is d * q0.
BDivFix(r, d, q0, p0) ==
    IF BCmp(p0, r) <= 0 THEN <<q0, BSub(r, p0)>>
    ELSE IF BCmp(BSub(p0, d), r) <= 0 THEN <<q0 - 1, BSub(r, BSub(p0, d))>>
    ELSE <<q0 - 2, BSub(r, BSub(BSub(p0, d), d))>>

BDivEst(r, d, q0) == BDivFix(r, d, q0, BMulSmall(d, q0))

BDivTop(r, d, est) == BDivEst(r, d, IF est >= Base THEN Base - 1 ELSE est)

BDivDigit(r, d) ==
    BDivTop(r, d, (Limb(r, Len(d) + 1) * Base + Limb(r, Len(d))) \div d[Len(d)])

\* k more digits of the quotient of r by d, put below the digits q, and the
\* remainder (times Base); a division that comes out even stops early
RECURSIVE BDivDigits(_, _, _, _)
RECURSIVE BDivStep(_, _, _, _)
BDivStep(t, d, k, q) ==
    IF t[2] = << >> THEN <<Zeros(k - 1) \o <<t[1]>> \o q, << >> >>
    ELSE BDivDigits(BPush(t[2], 0), d, k - 1, <<t[1]>> \o q)

BDivDigits(r, d, k, q) ==
    IF k = 0 THEN <<q, r>> ELSE BDivStep(BDivDigit(r, d), d, k, q)

\* the remainder of (rem * Base^i + the i low digits of a) by d, for rem < d
RECURSIVE BModDigits(_, _, _, _)
BModDigits(a, d, i, rem) ==
    IF i = 0 THEN rem
    ELSE IF rem = << >> /\ a[i] = 0 THEN BModDigits(a, d, i - 1, << >>)
    ELSE BModDigits(a, d, i - 1, BDivDigit(BPush(rem, a[i]), d)[2])

BModNorm(an, dn, sh) == BShr(BModDigits(an, dn, Len(an), << >>), sh)

\* a mod d, for d > 0
BMod(a, d) == BModNorm(BShl(a, NormShift(d)), BShl(d, NormShift(d)), NormShift(d))

(***************************************************************************)
(* f64.  A value is a record: k is "fin", "inf" or "nan"; s is the sign    *)
(* (0 plus, 1 minus); a finite non-zero value is (-1)^s * m * 2^e with     *)
(* 2^52 <= m < 2^53; zero is m = << >>, e = 0, s = 0 (the source never     *)
(* tells -0.0 from 0.0: == and < do not).  The exponent ranges over the    *)
(* normal numbers; a result above the largest finite f64 is an infinity.   *)
(***************************************************************************)
MantBits == 53

MaxExp == 1023

FZero == [k |-> "fin", s |-> 0, m |-> << >>, e |-> 0]

FInf(s) == [k |-> "inf", s |-> s, m |-> << >>, e |-> 0]

FNaN == [k |-> "nan", s |-> 0, m |-> << >>, e |-> 0]

IsZero(x) == x.k = "fin" /\ x.m = << >>

\* the value (-1)^s * m * 2^e with m of 53 bits; past the largest finite
\* f64 it is an infinity
FPack(s, m, e) ==
    IF e + MantBits - 1 > MaxExp THEN FInf(s)
    ELSE [k |-> "fin", s |-> s, m |-> m, e |-> e]

\* a rounded-up significand may have reached 2^53
FCarry(s, q, e) ==
    IF BBitLen(q) > MantBits THEN FPack(s, BShr(q, 1), e + 1) ELSE FPack(s, q, e)

\* ties to even: up when the cut-off part is above a half, or is a half and
\* q is odd
FRoundQ(s, q, e, half, rest) ==
    IF half /\ (rest \/ BOdd(q)) THEN FCarry(s, BAdd(q, <<1>>), e)
    ELSE FPack(s, q, e)

FRoundCut(s, m, e, sticky, cut) ==
    IF cut <= 0 THEN FPack(s, BShl(m, -cut), e + cut)
    ELSE FRoundQ(s, BShr(m, cut), e + cut, BTestBit(m, cut - 1),
                 sticky \/ BLowBits(m, cut - 1))

\* (-1)^s * (m + a fraction, non-zero iff sticky) * 2^e, rounded to nearest,
\* ties to even
FRound(s, m, e, sticky) ==
    IF m = << >> THEN FZero
    ELSE FRoundCut(s, m, e, sticky, BBitLen(m) - MantBits)

\* an integer as f64 (exact below 2^53)
FInt(n) == IF n < 0 THEN FRound(1, BFromInt(-n), 0, FALSE)
           ELSE FRound(0, BFromInt(n), 0, FALSE)

FNeg(x) == IF x.k = "nan" \/ IsZero(x) THEN x ELSE [x EXCEPT !.s = 1 - x.s]

\* the order of the magnitudes of two finite values: -1, 0, 1
MagCmp(x, y) ==
    IF IsZero(x) THEN (IF IsZero(y) THEN 0 ELSE -1)
    ELSE IF IsZero(y) THEN 1
    ELSE IF x.e < y.e THEN -1
    ELSE IF x.e > y.e THEN 1
    ELSE BCmp(x.m, y.m)

\* the order of two values that are not NaN: -1, 0, 1
FCmp(x, y) ==
    LET sx == IF IsZero(x) THEN 0 ELSE x.s
        sy == IF IsZero(y) THEN 0 ELSE y.s
        mag == IF x.k = "inf" THEN (IF y.k = "inf" THEN 0 ELSE 1)
               ELSE IF y.k = "inf" THEN -1
               ELSE MagCmp(x, y)
    IN  IF sx # sy THEN (IF sx = 1 THEN -1 ELSE 1)
        ELSE IF sx = 1 THEN -mag ELSE mag

FEq(x, y) == x.k # "nan" /\ y.k # "nan" /\ FCmp(x, y) = 0

FLt(x, y) == x.k # "nan" /\ y.k # "nan" /\ FCmp(x, y) < 0

FLe(x, y) == x.k # "nan" /\ y.k # "nan" /\ FCmp(x, y) <= 0

FGt(x, y) == FLt(y, x)

\* f64::max and f64::min: a NaN operand yields the other operand
FMax(x, y) == IF x.k = "nan" THEN y ELSE IF y.k = "nan" THEN x
              ELSE IF FLt(x, y) THEN y ELSE x

FMin(x, y) == IF x.k = "nan" THEN y ELSE IF y.k = "nan" THEN x
              ELSE IF FLt(y, x) THEN y ELSE x

\* the sum of (-1)^sx * mx * 2^e and (-1)^sy * my * 2^e
FAddAligned(sx, mx, sy, my, e) ==
    IF sx = sy THEN FRound(sx, BAdd(mx, my), e, FALSE)
    ELSE IF BCmp(mx, my) = 0 THEN FZero
    ELSE IF BCmp(mx, my) > 0 THEN FRound(sx, BSub(mx, my), e, FALSE)
    ELSE FRound(sy, BSub(my, mx), e, FALSE)

FAddAt(x, y, e) ==
    FAddAligned(x.s, BShl(x.m, x.e - e), y.s, BShl(y.m, y.e - e), e)

FAdd(x, y) ==
    IF x.k = "nan" \/ y.k = "nan" THEN FNaN
    ELSE IF x.k = "inf" THEN (IF y.k = "inf" /\ y.s # x.s THEN FNaN ELSE x)
    ELSE IF y.k = "inf" THEN y
    ELSE IF IsZero(x) THEN y
    ELSE IF IsZero(y) THEN x
    ELSE FAddAt(x, y, IF x.e < y.e THEN x.e ELSE y.e)

FSub(x, y) == FAdd(x, FNeg(y))

FMul(x, y) ==
    IF x.k = "nan" \/ y.k = "nan" THEN FNaN
    ELSE IF x.k = "inf" \/ y.k = "inf"
         THEN (IF IsZero(x) \/ IsZero(y) THEN FNaN ELSE FInf((x.s + y.s) % 2))
    ELSE IF IsZero(x) \/ IsZero(y) THEN FZero
    ELSE FRound((x.s + y.s) % 2, BMul(x.m, y.m), x.e + y.e, FALSE)

\* the digits the quotient is computed to below its leading bit: the 53
\* bits kept, a guard bit and more
DivDigits == (MantBits + 1) \div LimbBits + 1

FDivRound(s, qr, e) == FRound(s, BNorm(qr[1]), e, qr[2] # << >>)

FDivNorm(s, mx, my, sh, e) ==
    FDivRound(s, BDivDigits(BShl(mx, sh), BShl(my, sh), DivDigits + 1, << >>), e)

FDiv(x, y) ==
    IF x.k = "nan" \/ y.k = "nan" THEN FNaN
    ELSE IF x.k = "inf" THEN (IF y.k = "inf" THEN FNaN ELSE FInf((x.s + y.s) % 2))
    ELSE IF y.k = "inf" THEN FZero
    ELSE IF IsZero(y) THEN (IF IsZero(x) THEN FNaN ELSE FInf((x.s + y.s) % 2))
    ELSE IF IsZero(x) THEN FZero
    ELSE FDivNorm((x.s + y.s) % 2, x.m, y.m, NormShift(y.m),
                  x.e - y.e - DivDigits * LimbBits)

FRemAt(x, y, e) ==
    FRound(x.s, BMod(BShl(x.m, x.e - e), BShl(y.m, y.e - e)), e, FALSE)

\* the % operator of f64: the remainder of the truncating division, exact,
\* with the sign of x
FRem(x, y) ==
    IF x.k # "fin" \/ y.k = "nan" \/ IsZero(y) THEN FNaN
    ELSE IF y.k = "inf" \/ IsZero(x) THEN x
    ELSE IF MagCmp(x, y) < 0 THEN x
    ELSE FRemAt(x, y, IF x.e < y.e THEN x.e ELSE y.e)

\* f64::round followed by `as u8`: to the nearest integer, halves away from
\* zero; the cast saturates at 0 and 255 and sends NaN to 0
U8Max == 255

\* a faulty cast: `(x) as u8` without `.round()`, which truncates
TruncU8(x) ==
    IF x.k = "nan" THEN 0
    ELSE IF x.k = "inf" THEN (IF x.s = 1 THEN 0 ELSE U8Max)
    ELSE IF IsZero(x) \/ x.s = 1 THEN 0
    ELSE IF x.e >= 0 \/ BBitLen(BShr(x.m, -x.e)) > 8 THEN U8Max
    ELSE BToInt(BShr(x.m, -x.e))

U8Cast(r) == IF BBitLen(r) > 8 THEN U8Max ELSE BToInt(r)

RoundU8(x) ==
    IF x.k = "nan" THEN 0
    ELSE IF x.k = "inf" THEN (IF x.s = 1 THEN 0 ELSE U8Max)
    ELSE IF IsZero(x) \/ x.s = 1 THEN 0
    ELSE IF x.e >= 0 THEN U8Max
    ELSE IF BTestBit(x.m, (-x.e) - 1) THEN U8Cast(BAdd(BShr(x.m, -x.e), <<1>>))
    ELSE U8Cast(BShr(x.m, -x.e))

(***************************************************************************)
(* The literals of the source.  1.0 / 3.0, 1.0 / 6.0, 1.0 / 2.0 and        *)
(* 2.0 / 3.0 are divisions in the source and are divisions here.           *)
(***************************************************************************)
F0 == FZero

F1 == FInt(1)

F2 == FInt(2)

F4 == FInt(4)

F6 == FInt(6)

F100 == FInt(100)

F255 == FInt(255)

F360 == FInt(360)

FHalf == FDiv(FInt(1), FInt(2))

FThird == FDiv(FInt(1), FInt(3))

FSixth == FDiv(FInt(1), FInt(6))

FTwoThirds == FDiv(FInt(2), FInt(3))

(***************************************************************************)
(* The two colour types and their operations.                              *)
(***************************************************************************)
RgbaColorType(r, g, b, a) == [r |-> r, g |-> g, b |-> b, a |-> a]

HslaColorType(h, s, l, a) == [h |-> h, s |-> s, l |-> l, a |-> a]

\* #[derive(PartialEq)]: field by field, with the == of f64
RgbaEq(c, d) == FEq(c.r, d.r) /\ FEq(c.g, d.g) /\ FEq(c.b, d.b) /\ FEq(c.a, d.a)

\* a faulty constructor: alpha left at 0.0
RgbaNewTransparent(r, g, b) == RgbaColorType(r, g, b, F0)

RgbaNew(r, g, b) == RgbaColorType(r, g, b, F1)

\* `if self.h < 0.0 { self.h += 360.0 }`
WrapHue(h) == IF FLt(h, F0) THEN FAdd(h, F360) ELSE h

\* the hue after `self.h = self.h % 360.0` and the wrap of a negative hue
ValidHue(h) == WrapHue(FRem(h, F360))

\* a faulty clamp: the upper bound forgotten
ClampNone(x) == x

\* `if x > 100.0 { x = 100.0 }`
ClampHigh(x) == IF FGt(x, F100) THEN F100 ELSE x

\* s or l after `if x < 0.0 { x = 0.0 }` and the clamp at 100
ValidPercent(x) == ClampHigh(IF FLt(x, F0) THEN F0 ELSE x)

validate(c) == HslaColorType(ValidHue(c.h), ValidPercent(c.s), ValidPercent(c.l), c.a)

HslaNew(h, s, l) == validate(HslaColorType(h, s, l, F1))

\* a faulty wrap: t above 1.0 left as it is
WrapHighNone(t) == t

\* `if t > 1.0 { t -= 1.0 }`
WrapHigh(t) == IF FGt(t, F1) THEN FSub(t, F1) ELSE t

\* t after the two wraps of hue2rgb
WrapT(t) == WrapHigh(IF FLt(t, F0) THEN FAdd(t, F1) ELSE t)

\* the four returns of hue2rgb, for the wrapped t
Hue2RgbAt(p, q, t) ==
    IF FLt(t, FSixth) THEN FAdd(p, FMul(FMul(FSub(q, p), F6), t))
    ELSE IF FLt(t, FHalf) THEN q
    ELSE IF FLt(t, FTwoThirds)
         THEN FAdd(p, FMul(FMul(FSub(q, p), FSub(FTwoThirds, t)), F6))
    ELSE p

hue2rgb(p, q, t0) == Hue2RgbAt(p, q, WrapT(t0))

\* From<[f64; 3]>
RgbaFromUnit(c) == RgbaNew(c[1], c[2], c[3])

\* a faulty import: bytes divided by 256.0
RgbaFromBytes256(c) ==
    RgbaNew(FDiv(FInt(c[1]), FInt(256)), FDiv(FInt(c[2]), FInt(256)),
            FDiv(FInt(c[3]), FInt(256)))

\* From<[u8; 3]>
RgbaFromBytes(c) ==
    RgbaNew(FDiv(FInt(c[1]), F255), FDiv(FInt(c[2]), F255), FDiv(FInt(c[3]), F255))

\* Into<[u8; 3]>
IntoBytes(c) ==
    <<RoundU8(FMul(c.r, F255)), RoundU8(FMul(c.g, F255)), RoundU8(FMul(c.b, F255))>>

\* q and p of the chromatic branch of From<HslaColorType>
HslQ(s, l) ==
    IF FLt(l, FHalf) THEN FMul(l, FAdd(F1, s))
    ELSE FSub(FAdd(l, s), FMul(l, s))

HslP(l, q) == FSub(FMul(F2, l), q)

\* the chromatic branch of From<HslaColorType>
RgbaFromPQ(h, p, q) ==
    RgbaNew(hue2rgb(p, q, FAdd(h, FThird)),
            hue2rgb(p, q, h),
            hue2rgb(p, q, FSub(h, FThird)))

RgbaChromatic(h, l, q) == RgbaFromPQ(h, HslP(l, q), q)

\* the branches of From<HslaColorType>, for h, s and l scaled to the unit
RgbaFromUnitHsl(h, s, l) ==
    IF ~FEq(s, F0) THEN RgbaChromatic(h, l, HslQ(s, l)) ELSE RgbaNew(l, l, l)

\* From<HslaColorType> for RgbaColorType
RgbaFromHsla(c) ==
    RgbaFromUnitHsl(FDiv(c.h, F360), FDiv(c.s, F100), FDiv(c.l, F100))

Max3(c) == FMax(FMax(c.r, c.g), c.b)

Min3(c) == FMin(FMin(c.r, c.g), c.b)

\* a faulty test: only black taken for achromatic
AchromaticBlack(max, min) == FEq(max, F0) /\ FEq(min, F0)

\* `if max == min`: the achromatic branch
Achromatic(max, min) == FEq(max, min)

\* a faulty divisor: the case l > 0.5 forgotten
SatDivisorLow(max, min, l) == FAdd(max, min)

\* the divisor of the saturation
SatDivisor(max, min, l) ==
    IF FGt(l, FHalf) THEN FSub(FSub(F2, max), min) ELSE FAdd(max, min)

\* the hue in sixths of the turn, before `h = h / 6.0`; l is what h holds
\* when no branch assigns it
HueSextant(c, max, d, l) ==
    IF FEq(max, c.r)
    THEN FAdd(FDiv(FSub(c.g, c.b), d), IF FLt(c.g, c.b) THEN F6 ELSE F0)
    ELSE IF FEq(max, c.g) THEN FAdd(FDiv(FSub(c.b, c.r), d), F2)
    ELSE IF FEq(max, c.b) THEN FAdd(FDiv(FSub(c.r, c.g), d), F4)
    ELSE l

\* the chromatic branch of From<RgbaColorType>: h, s and l in the unit
HslChromatic(c, max, min, l, d) ==
    <<FDiv(HueSextant(c, max, d, l), F6), FDiv(d, SatDivisor(max, min, l)), l>>

\* h, s and l in the unit, from the largest and the smallest channel
UnitHslAt(c, max, min, l) ==
    IF Achromatic(max, min) THEN <<F0, F0, l>>
    ELSE HslChromatic(c, max, min, l, FSub(max, min))

UnitHslOf(c, max, min) == UnitHslAt(c, max, min, FDiv(FAdd(max, min), F2))

\* `h *= 360.0; s *= 100.0; l *= 100.0; HslaColorType::new(h, s, l)`
HslaScaled(hsl) == HslaNew(FMul(F360, hsl[1]), FMul(F100, hsl[2]), FMul(F100, hsl[3]))

\* From<RgbaColorType> for HslaColorType
HslaFromRgba(c) == HslaScaled(UnitHslOf(c, Max3(c), Min3(c)))

\* a faulty complement: blue left as it is
complementKeepsBlue(c) == RgbaNew(FSub(F1, c.r), FSub(F1, c.g), c.b)

\* Color::complement
complement(c) == RgbaNew(FSub(F1, c.r), FSub(F1, c.g), FSub(F1, c.b))

(***************************************************************************)
(* The state: the values a caller has built so far, each from the one      *)
(* before it.  hist[i] records the operation, its argument and its result; *)
(* hist[1] is a construction and every later entry applies an operation of *)
(* the API to the result before it.                                        *)
(***************************************************************************)
VARIABLES hist

vars == <<hist>>

\* the length a chain of operations is cut at
MaxOps == 3

\* the unit channel inputs are the k / Den, k in 0..Den
Den == 5

\* the out-of-range channel inputs are the integers of -Wide..Wide
Wide == 2

\* the hue inputs are the multiples of 360 / HueSteps degrees
HueSteps == 24

\* the percent inputs are the multiples of 100 / PctSteps
PctSteps == 5

\* the byte inputs vary one component over 0..255 and take the other two
\* from the multiples of 255 / ByteSteps
ByteSteps == 1

RgbaOps == {"new", "from_unit", "from_bytes", "rgba_literal", "from_hsla", "complement"}

HslaOps == {"hsla_new", "hsla_literal", "from_rgba"}

ByteOps == {"into_bytes"}

Entry(op, arg, val) == [op |-> op, arg |-> arg, val |-> val]

Last == hist[Len(hist)]

CanApply(ops) == hist # << >> /\ Len(hist) < MaxOps /\ Last.op \in ops

\* the channel values of the tests of the source: 0.1, 0.2, 0.3, 0.25, 0.5,
\* 0.0, 1.0
TestChannels ==
    {FDiv(FInt(1), FInt(10)), FDiv(FInt(2), FInt(10)), FDiv(FInt(3), FInt(10)),
     FDiv(FInt(1), FInt(4)), FDiv(FInt(1), FInt(2)), F0, F1}

UnitChannels == {FDiv(FInt(k), FInt(Den)) : k \in 0..Den} \cup TestChannels

WideChannels == {FInt(k) : k \in (-Wide)..Wide} \cup {FHalf}

Alphas == {F0, FHalf, F1}

\* 2^-60: the magnitude of a hue just below zero
Tiny == FDiv(FDiv(F1, FInt(2 ^ 30)), FInt(2 ^ 30))

Hues ==
    {FDiv(FInt(360 * k), FInt(HueSteps)) : k \in (-HueSteps)..(2 * HueSteps)}
        \cup {FInt(400), FInt(-30), FInt(1000000), FNeg(Tiny), Tiny}

Percents ==
    {FDiv(FInt(100 * k), FInt(PctSteps)) : k \in 0..PctSteps} \cup {FInt(150), FInt(-20)}

ByteGrid == {(255 * k) \div ByteSteps : k \in 0..ByteSteps}

ByteTriples ==
    {<<v, w, x>> : v \in 0..U8Max, w \in ByteGrid, x \in {128}}
        \cup {<<w, v, x>> : v \in 0..U8Max, w \in ByteGrid, x \in {64}}
        \cup {<<w, x, v>> : v \in 0..U8Max, w \in ByteGrid, x \in {255}}

Init == hist = << >>

\* RgbaColorType::new
New(S) ==
    /\ hist = << >>
    /\ \E r \in S, g \in S, b \in S :
          hist' = <<Entry("new", <<r, g, b>>, RgbaNew(r, g, b))>>

\* RgbaColorType::from([f64; 3])
FromUnit(S) ==
    /\ hist = << >>
    /\ \E r \in S, g \in S, b \in S :
          hist' = <<Entry("from_unit", <<r, g, b>>, RgbaFromUnit(<<r, g, b>>))>>

\* RgbaColorType::from([u8; 3]) of a triple the caller chose
FromBytes(S) ==
    /\ hist = << >>
    /\ \E t \in S : hist' = <<Entry("from_bytes", t, RgbaFromBytes(t))>>

\* RgbaColorType { r, g, b, a } written out, as the tests of the module do
RgbaLiteral(S) ==
    /\ hist = << >>
    /\ \E r \in S, g \in S, b \in S, a \in Alphas :
          hist' = <<Entry("rgba_literal", <<r, g, b, a>>, RgbaColorType(r, g, b, a))>>

\* HslaColorType::new
NewHsla(H, P) ==
    /\ hist = << >>
    /\ \E h \in H, s \in P, l \in P :
          hist' = <<Entry("hsla_new", <<h, s, l>>, HslaNew(h, s, l))>>

\* HslaColorType { h, s, l, a } written out
HslaLiteral(H, P) ==
    /\ hist = << >>
    /\ \E h \in H, s \in P, l \in P, a \in Alphas :
          hist' = <<Entry("hsla_literal", <<h, s, l, a>>, HslaColorType(h, s, l, a))>>

\* HslaColorType::from(RgbaColorType)
ToHsla ==
    /\ CanApply(RgbaOps)
    /\ hist' = Append(hist, Entry("from_rgba", Last.val, HslaFromRgba(Last.val)))

\* RgbaColorType::from(HslaColorType)
ToRgba ==
    /\ CanApply(HslaOps)
    /\ hist' = Append(hist, Entry("from_hsla", Last.val, RgbaFromHsla(Last.val)))

\* complement
Complement ==
    /\ CanApply(RgbaOps)
    /\ hist' = Append(hist, Entry("complement", Last.val, complement(Last.val)))

\* into(): [u8; 3]
ToBytes ==
    /\ CanApply(RgbaOps)
    /\ hist' = Append(hist, Entry("into_bytes", Last.val, IntoBytes(Last.val)))

\* RgbaColorType::from([u8; 3]) of an exported triple
BackFromBytes ==
    /\ CanApply(ByteOps)
    /\ hist' = Append(hist, Entry("from_bytes", Last.val, RgbaFromBytes(Last.val)))

Convert == ToHsla \/ ToRgba \/ Complement \/ ToBytes \/ BackFromBytes

\* the whole API, on any inputs: channels out of [0,1], alphas other than 1
Next ==
    \/ New(WideChannels)
    \/ FromUnit({F0, FHalf, F1})
    \/ FromBytes({<<0, 0, 0>>, <<255, 255, 255>>, <<128, 128, 128>>, <<255, 128, 64>>})
    \/ RgbaLiteral({F0, FHalf, F1})
    \/ NewHsla({FInt(400), FInt(-30), F0}, {F0, FInt(50), FInt(150), FInt(-20)})
    \/ HslaLiteral({FInt(40)}, {F0, FInt(50), F100})
    \/ Convert

Spec == Init /\ [][Next]_vars

\* colours with channels in [0,1]
NextUnit == New(UnitChannels) \/ Convert

SpecUnit == Init /\ [][NextUnit]_vars

\* the HSLA constructor on any hue, saturation and lightness
NextHsla == NewHsla(Hues, Percents) \/ ToRgba \/ ToHsla

SpecHsla == Init /\ [][NextHsla]_vars

\* byte triples
NextBytes == FromBytes(ByteTriples) \/ ToBytes \/ BackFromBytes

SpecBytes == Init /\ [][NextBytes]_vars

(***************************************************************************)
(* What the properties below speak of.                                     *)
(***************************************************************************)
Steps == 1..Len(hist)

\* the steps that apply an operation to the result of the step before
Later == 2..Len(hist)

InRange(x, lo, hi) == FLe(lo, x) /\ FLe(x, hi)

InUnit(c) == InRange(c.r, F0, F1) /\ InRange(c.g, F0, F1) /\ InRange(c.b, F0, F1)

\* f64::EPSILON, 2^-52
Epsilon == [k |-> "fin", s |-> 0, m |-> BShl(<<1>>, MantBits - 1), e |-> 2 - 2 * MantBits]

\* the tolerance of a round trip through HSL: 64 * f64::EPSILON
Tolerance == FMul(FInt(64), Epsilon)

FAbs(x) == IF x.k = "nan" THEN x ELSE [x EXCEPT !.s = 0]

Near(x, y, tol) == FLe(FAbs(FSub(x, y)), tol)

RgbNear(c, d, tol) == Near(c.r, d.r, tol) /\ Near(c.g, d.g, tol) /\ Near(c.b, d.b, tol)

RgbEq(c, d) == FEq(c.r, d.r) /\ FEq(c.g, d.g) /\ FEq(c.b, d.b)

\* the ranges an HSLA value is to have
ValidHsla(c) ==
    /\ FLe(F0, c.h) /\ FLt(c.h, F360)
    /\ InRange(c.s, F0, F100)
    /\ InRange(c.l, F0, F100)

\* step j converts back to RGBA the HSLA value step j - 1 made of an RGBA colour
RoundTrip(j) == hist[j].op = "from_hsla" /\ hist[j - 1].op = "from_rgba"

\* the colour of test_conv: (1.0, 0.5, 0.25)
ConvColor == RgbaColorType(F1, FHalf, FDiv(F1, F4), F1)

\* C1 as stated: a round trip RGB -> HSL -> RGB of a colour with channels
\* in [0,1] and alpha 1.0 yields a colour equal to it in all four fields.
C1_RoundTripExact ==
    \A j \in Later :
        RoundTrip(j) /\ InUnit(hist[j - 1].arg) /\ FEq(hist[j - 1].arg.a, F1)
            => RgbaEq(hist[j].val, hist[j - 1].arg)

\* C1, amended: a round trip RGB -> HSL -> RGB of a colour with channels in
\* [0,1] and alpha 1.0 yields a colour whose r, g and b are each within
\* 64 * f64::EPSILON of the original's and whose alpha is exactly 1.0; for
\* (1.0, 0.5, 0.25) the result is equal to the original in all four fields.
C1_RoundTripNear ==
    \A j \in Later :
        RoundTrip(j) /\ InUnit(hist[j - 1].arg) /\ FEq(hist[j - 1].arg.a, F1)
            => /\ RgbNear(hist[j].val, hist[j - 1].arg, Tolerance)
               /\ FEq(hist[j].val.a, F1)
               /\ (hist[j - 1].arg = ConvColor => RgbaEq(hist[j].val, ConvColor))

\* a round trip of a colour with g < b (6 is added to the hue) whose result is
\* near the original and not equal to it
C1_Witness ==
    \E j \in Later :
        /\ RoundTrip(j) /\ InUnit(hist[j - 1].arg) /\ FEq(hist[j - 1].arg.a, F1)
        /\ FLt(hist[j - 1].arg.g, hist[j - 1].arg.b)
        /\ FEq(Max3(hist[j - 1].arg), hist[j - 1].arg.r)
        /\ RgbNear(hist[j].val, hist[j - 1].arg, Tolerance)
        /\ ~RgbaEq(hist[j].val, hist[j - 1].arg)

\* C2 as stated: every HSLA value HslaColorType::new returns, on any inputs
\* and inside the conversion from RGBA, has 0 <= h < 360, 0 <= s <= 100 and
\* 0 <= l <= 100.
C2_HslaRange ==
    \A i \in Steps : hist[i].op \in {"hsla_new", "from_rgba"} => ValidHsla(hist[i].val)

\* x clamped to [0,100]
Clamped(x) == IF FGt(x, F100) THEN F100 ELSE IF FLt(x, F0) THEN F0 ELSE x

\* hue is h up to a multiple of 360, as far as f64 tells
Congruent(hue, h) ==
    \/ Near(hue, FRem(h, F360), Tolerance)
    \/ Near(hue, FAdd(FRem(h, F360), F360), Tolerance)

\* C3 as stated: HslaColorType::new stores the hue in [0,360) congruent to h
\* modulo 360, and s and l each clamped to [0,100].
C3_Normalised ==
    \A i \in Steps :
        hist[i].op = "hsla_new"
            => /\ FLe(F0, hist[i].val.h) /\ FLt(hist[i].val.h, F360)
               /\ Congruent(hist[i].val.h, hist[i].arg[1])
               /\ hist[i].val.s = Clamped(hist[i].arg[2])
               /\ hist[i].val.l = Clamped(hist[i].arg[3])

\* the operations that build a colour value
Producers == {"new", "from_unit", "from_bytes", "from_hsla", "complement", "hsla_new", "from_rgba"}

\* C4: every colour value produced by new, from a unit triple, from a byte
\* triple, by either conversion or by complement has alpha exactly 1.0,
\* whatever the alpha of the value it was made from.
C4_AlphaOne ==
    \A i \in Steps : hist[i].op \in Producers => hist[i].val.a = F1

\* a value with an alpha other than 1.0 has been converted or complemented
C4_Witness ==
    \E j \in Later :
        /\ hist[j].op \in {"from_hsla", "from_rgba", "complement"}
        /\ ~FEq(hist[j].arg.a, F1)
        /\ hist[j].val.a = F1

\* step j complements the complement step j - 1 made
Twice(j) == hist[j].op = "complement" /\ hist[j - 1].op = "complement"

\* C5 as stated: for a colour with channels in [0,1], the complement of the
\* complement equals the colour in r, g and b.
C5_InvolutionExact ==
    \A j \in Later :
        Twice(j) /\ InUnit(hist[j - 1].arg) => RgbEq(hist[j].val, hist[j - 1].arg)

\* C5, amended: for a colour with channels in [0,1], each channel of the
\* complement lies in [0,1] and adds up with the original's to 1.0 within
\* f64::EPSILON, its alpha is 1.0, and the complement of the complement is
\* within f64::EPSILON of the colour in r, g and b.
C5_InvolutionNear ==
    /\ \A i \in Steps :
           hist[i].op = "complement" /\ InUnit(hist[i].arg)
               => /\ InUnit(hist[i].val)
                  /\ hist[i].val.a = F1
                  /\ Near(FAdd(hist[i].val.r, hist[i].arg.r), F1, Epsilon)
                  /\ Near(FAdd(hist[i].val.g, hist[i].arg.g), F1, Epsilon)
                  /\ Near(FAdd(hist[i].val.b, hist[i].arg.b), F1, Epsilon)
    /\ \A j \in Later :
           Twice(j) /\ InUnit(hist[j - 1].arg)
               => RgbNear(hist[j].val, hist[j - 1].arg, Epsilon)

\* a colour with channels in [0,1] complemented twice, the result near it and
\* not equal to it
C5_Witness ==
    \E j \in Later :
        /\ Twice(j) /\ InUnit(hist[j - 1].arg)
        /\ RgbNear(hist[j].val, hist[j - 1].arg, Epsilon)
        /\ ~RgbEq(hist[j].val, hist[j - 1].arg)

\* n is x * 255 rounded to the nearest integer, halves up, and is a byte
RoundsTo(x, n) ==
    /\ n \in 0..U8Max
    /\ FLe(FSub(FInt(n), FHalf), FMul(x, F255))
    /\ FLt(FMul(x, F255), FAdd(FInt(n), FHalf))

\* C6: for a colour with channels in [0,1] the byte export returns, in the
\* order r, g, b, each channel times 255 rounded to the nearest integer with
\* halves up, each in 0..255; (1.0, 0.5, 0.25) exports as [255, 128, 64].
C6_ByteExport ==
    \A i \in Steps :
        hist[i].op = "into_bytes" /\ InUnit(hist[i].arg)
            => /\ RoundsTo(hist[i].arg.r, hist[i].val[1])
               /\ RoundsTo(hist[i].arg.g, hist[i].val[2])
               /\ RoundsTo(hist[i].arg.b, hist[i].val[3])
               /\ (RgbEq(hist[i].arg, ConvColor) => hist[i].val = <<255, 128, 64>>)

\* (1.0, 0.5, 0.25) has been exported: 127.5 went up to 128, 63.75 to 64
C6_Witness ==
    \E i \in Steps :
        /\ hist[i].op = "into_bytes"
        /\ RgbEq(hist[i].arg, ConvColor)
        /\ hist[i].val = <<255, 128, 64>>

Grey(c) == FEq(c.r, c.g) /\ FEq(c.g, c.b)

\* C7: a colour with r = g = b = v, v in [0,1], converts to hue 0,
\* saturation 0 and lightness 100 * v, by the achromatic branch.
C7_Achromatic ==
    \A i \in Steps :
        hist[i].op = "from_rgba" /\ Grey(hist[i].arg) /\ InUnit(hist[i].arg)
            => /\ Achromatic(Max3(hist[i].arg), Min3(hist[i].arg))
               /\ hist[i].val = HslaColorType(F0, F0, FMul(F100, hist[i].arg.r), F1)

\* a grey that is neither black nor white has been converted
C7_Witness ==
    \E i \in Steps :
        /\ hist[i].op = "from_rgba" /\ Grey(hist[i].arg)
        /\ FLt(F0, hist[i].arg.r) /\ FLt(hist[i].arg.r, F1)
        /\ hist[i].val = HslaColorType(F0, F0, FMul(F100, hist[i].arg.r), F1)

\* t wraps into [0,1] and hue2rgb(p, q, t) lies between p and q
WrapsBetween(p, q, t) ==
    /\ InRange(WrapT(t), F0, F1)
    /\ InRange(hue2rgb(p, q, t), FMin(p, q), FMax(p, q))

\* the three calls of hue2rgb for h, s and l scaled to the unit
CallsBetween(h, l, q) ==
    /\ WrapsBetween(HslP(l, q), q, FAdd(h, FThird))
    /\ WrapsBetween(HslP(l, q), q, h)
    /\ WrapsBetween(HslP(l, q), q, FSub(h, FThird))

Chromatic(c) == ~FEq(FDiv(c.s, F100), F0)

\* C8: for an HSLA value with 0 <= h < 360, 0 <= s <= 100 and 0 <= l <= 100
\* the conversion to RGBA yields r, g and b in [0,1]; each t given to hue2rgb
\* is brought into [0,1] by its one wrap and each result of hue2rgb lies
\* between p and q.
C8_RgbRange ==
    \A i \in Steps :
        hist[i].op = "from_hsla" /\ ValidHsla(hist[i].arg)
            => /\ InUnit(hist[i].val)
               /\ Chromatic(hist[i].arg)
                      => CallsBetween(FDiv(hist[i].arg.h, F360), FDiv(hist[i].arg.l, F100),
                                      HslQ(FDiv(hist[i].arg.s, F100), FDiv(hist[i].arg.l, F100)))

\* a chromatic HSLA value whose h / 360 + 1/3 exceeds 1 has been converted
C8_Witness ==
    \E i \in Steps :
        /\ hist[i].op = "from_hsla" /\ ValidHsla(hist[i].arg) /\ Chromatic(hist[i].arg)
        /\ FGt(FAdd(FDiv(hist[i].arg.h, F360), FThird), F1)
        /\ InUnit(hist[i].val)

\* the lightness From<RgbaColorType> computes, in the unit
UnitL(c) == FDiv(FAdd(Max3(c), Min3(c)), F2)

IsChromatic(c) == ~Achromatic(Max3(c), Min3(c))

ZeroSatDivisor(c) == IsZero(SatDivisor(Max3(c), Min3(c), UnitL(c)))

Finite(x) == x.k = "fin"

Channel(c, n) == <<c.r, c.g, c.b>>[n]

\* step j exports the colour step j - 1 made of a byte triple
ByteTrip(j) == hist[j].op = "into_bytes" /\ hist[j - 1].op = "from_bytes"

\* C10: a colour made of a byte triple has channels in [0,1], 0 giving 0.0
\* and 255 giving 1.0, and its byte export is the triple, in the same order.
C10_ByteRoundTrip ==
    /\ \A i \in Steps :
           hist[i].op = "from_bytes"
               => /\ InUnit(hist[i].val)
                  /\ \A n \in 1..3 :
                         /\ hist[i].arg[n] = 0 => Channel(hist[i].val, n) = F0
                         /\ hist[i].arg[n] = U8Max => Channel(hist[i].val, n) = F1
    /\ \A j \in Later : ByteTrip(j) => hist[j].val = hist[j - 1].arg

\* a triple of three different bytes has made the round trip
C10_Witness ==
    \E j \in Later :
        /\ ByteTrip(j)
        /\ hist[j - 1].arg[1] # hist[j - 1].arg[2]
        /\ hist[j - 1].arg[2] # hist[j - 1].arg[3]
        /\ hist[j - 1].arg[1] # hist[j - 1].arg[3]
        /\ hist[j].val = hist[j - 1].arg

====
